---- MODULE Spec2Model ----
(***************************************************************************)
(* A model of skeletonizer/skeleton.py: the edge-collapse loop of          *)
(* skeletonize, the tree fixing of edges_to_graph and the node table of    *)
(* make_swc.                                                               *)
(*                                                                         *)
(* Conventions.  numpy arrays are sequences; Python's 0-based edge index i *)
(* is the sequence index i + 1.  Vertex ids keep their 0-based values.     *)
(* Coordinates are integers on one axis (the code's three axes carry no    *)
(* control flow), so an edge length is an absolute difference.  Weights    *)
(* are counted in tenths, so that sample_weight = 0.1 is the integer 1.    *)
(***************************************************************************)
EXTENDS Integers, Sequences, FiniteSets, TLC

VARIABLES entry, pc, exc, mesh,
          \* skeletonize
          edges, edge_lengths, p, face_edges, is_collapsed, keep, F_T,
          Q_array, verts_lengths, face_count, collapse_ix,
          \* edges_to_graph
          in_edges, fix_tree, drop_disconnected, weight, G,
          \* make_swc
          x, reindex, validate, swc

loopVars == <<edges, edge_lengths, p, face_edges, is_collapsed, keep, F_T,
              Q_array, verts_lengths, face_count, collapse_ix>>

graphVars == <<in_edges, fix_tree, drop_disconnected, weight, G>>

swcVars == <<x, reindex, validate, swc>>

vars == <<entry, pc, exc, mesh, loopVars, graphVars, swcVars>>

\* ---------------------------------------------------------------- bounds
NumVerts == 5
MaxFaces == 4
\* edges_to_graph called on its own: rows over the vertices 0..MaxVertex
MaxVertex == 3
MaxEdges == 4
\* make_swc called on its own: rows over the node ids 0..MaxNode
MaxNode == 2
MaxRows == 2

\* ------------------------------------------------------------- constants
\* skeletonize(mesh, shape_weight=1, sample_weight=0.1), in tenths
shape_weight == 10
sample_weight == 1

\* --------------------------------------------------------------- helpers
Abs(a) == IF a < 0 THEN -a ELSE a

Range(s) == {s[i] : i \in DOMAIN s}

RECURSIVE SumOver(_, _)
SumOver(S, f) ==
    IF S = {} THEN 0
    ELSE LET e == CHOOSE y \in S : TRUE IN f[e] + SumOver(S \ {e}, f)

\* lexicographic order on integer tuples of one length
LexLess(a, b) ==
    \E i \in DOMAIN a :
        /\ a[i] < b[i]
        /\ \A j \in DOMAIN a : j < i => a[j] = b[j]

\* the elements of a set of tuples, ascending (np.unique(..., axis=0))
RECURSIVE SortedRows(_)
SortedRows(S) ==
    IF S = {} THEN <<>>
    ELSE LET m == CHOOSE r \in S : \A y \in S : y = r \/ LexLess(r, y)
         IN <<m>> \o SortedRows(S \ {m})

\* np.sort of one row of three
SortTriple(t) ==
    LET lo == CHOOSE a \in Range(t) : \A y \in Range(t) : a <= y
        hi == CHOOSE a \in Range(t) : \A y \in Range(t) : a >= y
        mid == CHOOSE i \in DOMAIN t :
                   /\ \E j, k \in DOMAIN t :
                          /\ j # i /\ k # i /\ j # k
                          /\ t[j] = lo /\ t[k] = hi
    IN <<lo, t[mid], hi>>

Rotate(s, r) ==
    [i \in 1..Len(s) |-> s[((i - 1 + r) % Len(s)) + 1]]

RECURSIVE SubsetsUpTo(_, _)
SubsetsUpTo(S, k) ==
    IF k = 0 \/ S = {} THEN {{}}
    ELSE LET e == CHOOSE y \in S : TRUE
             rest == SubsetsUpTo(S \ {e}, k)
             small == SubsetsUpTo(S \ {e}, k - 1)
         IN rest \cup {T \cup {e} : T \in small}

\* F_T holds floats: a finite number or np.inf
Fin(c) == <<0, c>>
Inf == <<1, 0>>
CostLess(a, b) == a[1] < b[1] \/ (a[1] = 0 /\ b[1] = 0 /\ a[2] < b[2])

\* np.argmin: the first index holding the least value
ArgminFirst(F) ==
    CHOOSE i \in DOMAIN F :
        /\ \A j \in DOMAIN F : ~CostLess(F[j], F[i])
        /\ \A j \in DOMAIN F : j < i => CostLess(F[i], F[j])

\* ------------------------------------------------------------ input mesh
Verts == 0..(NumVerts - 1)

Triangles == {f \in SUBSET Verts : Cardinality(f) = 3}

\* the external mesh collaborator keeps referenced vertices only, so the
\* vertex ids of a mesh are 0..k-1
Dense(faces) ==
    LET used == UNION faces IN used = 0..(Cardinality(used) - 1)

FaceSets ==
    {fs \in SubsetsUpTo(Triangles, MaxFaces) : fs # {} /\ Dense(fs)}

\* scenario meshes: the closed tetrahedron, and three faces around one edge
\* with a fourth across two of them
Tetrahedron == {{0, 1, 2}, {0, 1, 3}, {0, 2, 3}, {1, 2, 3}}
Fan == {{0, 1, 2}, {0, 1, 3}, {0, 1, 4}, {0, 2, 4}}

\* every row (u, v) with u < v, ascending
AllEdgeRows == SortedRows({e \in Verts \X Verts : e[1] < e[2]})

\* the rows of the undirected edges of the faces, ascending
EdgeRows(faces) ==
    SelectSeq(AllEdgeRows, LAMBDA e : \E f \in faces : {e[1], e[2]} \subseteq f)

Permute(s, q) == [i \in 1..Len(s) |-> s[q[i]]]

Bijections(n) == {q \in [1..n -> 1..n] : \A i, j \in 1..n : q[i] = q[j] => i = j}

\* mesh.edges_unique: the unique edges in some order.  The sorted list for
\* a general mesh, every rotation of it for the fan, every order for the
\* tetrahedron.
EdgeOrders(faces) ==
    {EdgeRows(faces)} \cup
    (IF faces = Fan
     THEN {Rotate(EdgeRows(faces), r) : r \in 0..(Len(EdgeRows(faces)) - 1)}
     ELSE {}) \cup
    (IF faces = Tetrahedron
     THEN {Permute(EdgeRows(faces), q) : q \in Bijections(Len(EdgeRows(faces)))}
     ELSE {})

\* mesh.vertices on one axis, quadratically spaced, so that edges differ
\* in length
Layout == [v \in Verts |-> (v + 1) * (v + 1)]

IndexOf(s, e) == CHOOSE i \in DOMAIN s : s[i] = e

\* mesh.faces_unique_edges: per face, the indices of its three edges
FacesUniqueEdges(faces, eu) ==
    {SortTriple(<<IndexOf(eu, <<a, b>>), IndexOf(eu, <<a, c>>),
                  IndexOf(eu, <<b, c>>)>>) :
        <<a, b, c>> \in {t \in Verts \X Verts \X Verts :
                            t[1] < t[2] /\ t[2] < t[3]
                            /\ {t[1], t[2], t[3]} \in faces}}

Meshes ==
    UNION {{[faces |-> fs, edges_unique |-> eu, vertices |-> Layout] :
               eu \in EdgeOrders(fs)} : fs \in FaceSets}

\* a graph: undirected edges are rows (a, b) with a < b, directed edges are
\* rows (child, parent)
NoGraph == [directed |-> FALSE, nodes |-> {}, edges |-> {}, weights |-> <<>>]

\* ---------------------------------------------------- cost initialisation
\* edge_lengths (line 84)
EdgeLengths(eu, vertices) ==
    [i \in DOMAIN eu |-> Abs(vertices[eu[i][1]] - vertices[eu[i][2]])]

\* K_dot (lines 108-135) on one axis: a = |direction| = 1, b = a * x(first
\* vertex), K = (a, -b), K^T K = ((a*a, -a*b), (-a*b, b*b))
KDot(b) == <<<<1, -b>>, <<-b, b * b>>>>

MatAdd(A, B) == [r \in DOMAIN A |-> [c \in DOMAIN A[r] |-> A[r][c] + B[r][c]]]

RECURSIVE MatSum(_, _, _)
MatSum(eu, vertices, S) ==
    IF S = {} THEN <<<<0, 0>>, <<0, 0>>>>
    ELSE LET i == CHOOSE j \in S : TRUE
         IN MatAdd(KDot(vertices[eu[i][1]]), MatSum(eu, vertices, S \ {i}))

\* Q_array (lines 138-153): per vertex, the sum over the edges touching it
InitQ(eu, vertices) ==
    [v \in Verts |->
        MatSum(eu, vertices, {i \in DOMAIN eu : eu[i][1] = v \/ eu[i][2] = v})]

\* p (lines 181-185): per edge, the homogeneous coordinate of its first vertex
PArray(eu, vertices) == [i \in DOMAIN eu |-> <<vertices[eu[i][1]], 1>>]

\* np.einsum('ij,kji->ij', p, Q)[:, [0, 1]] summed: the coordinate times
\* the column sum of Q, over the leading spatial columns only
Einsum(pt, Q) == pt[1] * (Q[1][1] + Q[2][1])

\* verts_lengths (lines 200-212): adj = adj + adj.T, then the row sums
InitVertsLengths(eu, len) ==
    [v \in Verts |->
        SumOver({i \in DOMAIN eu : eu[i][1] = v}, len)
        + SumOver({i \in DOMAIN eu : eu[i][2] = v}, len)]

\* shape_cost, sample_cost and F_T of one edge (lines 187-222)
ShapeCost(pt1, pt2, Q1, Q2) == Einsum(pt1, Q1) + Einsum(pt2, Q2)

SampleCost(len, ik_edge) == len * (ik_edge - len)

WeightedCost(shape_cost, sample_cost) ==
    shape_cost * shape_weight + sample_cost * sample_weight

InitFT(eu, len, pa, Q, vl) ==
    [i \in DOMAIN eu |->
        Fin(WeightedCost(ShapeCost(pa[i], pa[i], Q[eu[i][1]], Q[eu[i][2]]),
                         SampleCost(len[i], vl[eu[i][1]])))]

InitSkeletonize ==
    /\ entry = "skeletonize"
    /\ pc = "loop"
    /\ mesh \in Meshes
    /\ edges = mesh.edges_unique
    /\ edge_lengths = EdgeLengths(edges, mesh.vertices)
    /\ p = PArray(edges, mesh.vertices)
    /\ face_edges = SortedRows(FacesUniqueEdges(mesh.faces, edges))
    /\ is_collapsed = {}
    /\ keep = {}
    /\ Q_array = InitQ(edges, mesh.vertices)
    /\ verts_lengths = InitVertsLengths(edges, edge_lengths)
    /\ F_T = InitFT(edges, edge_lengths, p, Q_array, verts_lengths)
    /\ face_count = Len(face_edges)
    /\ collapse_ix = 0
    /\ exc = "none"
    /\ in_edges = <<>>
    /\ fix_tree = FALSE
    /\ drop_disconnected = FALSE
    /\ weight = FALSE
    /\ G = NoGraph
    /\ x = <<>>
    /\ reindex = FALSE
    /\ validate = FALSE
    /\ swc = <<>>

\* ------------------------------------------------------ the collapse loop
\* MaskedCosts without line 239: the kept edges stay selectable
MaskedCostsKeptStay(F, kp, col) ==
    [i \in DOMAIN F |-> IF i \in col THEN Inf ELSE Fin(0)]

\* MaskedCosts without line 240: the collapsed edges stay selectable
MaskedCostsCollapsedStay(F, kp, col) ==
    [i \in DOMAIN F |-> IF i \in kp THEN Inf ELSE Fin(0)]

\* lines 231-240: zero the costs, then retire the flagged edges
MaskedCosts(F, kp, col) ==
    [i \in DOMAIN F |-> IF i \in kp \/ i \in col THEN Inf ELSE Fin(0)]

\* lines 248-256: the edges joining u and v, self-loops removed
ClpsEdges(ed, u, v) ==
    {i \in DOMAIN ed :
        /\ ed[i][1] \in {u, v}
        /\ ed[i][2] \in {u, v}
        /\ ed[i][1] # ed[i][2]}

\* HasUV without line 266: the middle column of a face is not looked at
HasUVOuterColumns(row, clps) == row[1] \in clps \/ row[3] \in clps

\* lines 264-267
HasUV(row, clps) == row[1] \in clps \/ row[2] \in clps \/ row[3] \in clps

\* line 285, before the reshape: the entries of the collapsed faces that
\* are no candidate edge, row by row
RECURSIVE Flatten(_, _)
Flatten(rows, clps) ==
    IF rows = <<>> THEN <<>>
    ELSE SelectSeq(Head(rows), LAMBDA e : e \notin clps)
         \o Flatten(Tail(rows), clps)

\* line 297
ReplaceEdge(fe, loose, win) ==
    [f \in DOMAIN fe |->
        [j \in 1..3 |-> IF fe[f][j] = loose THEN win ELSE fe[f][j]]]

\* lines 296-298: each (win, loose) pair in turn
RECURSIVE Relabel(_, _, _, _)
Relabel(flat, k, fe, col) ==
    IF 2 * k > Len(flat) THEN [face_edges |-> fe, is_collapsed |-> col]
    ELSE Relabel(flat, k + 1, ReplaceEdge(fe, flat[2 * k], flat[2 * k - 1]),
                 col \cup {flat[2 * k]})

\* line 301
MergeVertex(ed, u, v) ==
    [i \in DOMAIN ed |->
        [j \in 1..2 |-> IF ed[i][j] = u THEN v ELSE ed[i][j]]]

\* lines 309-332: the costs of the edges touching v.  p is indexed by the
\* vertex id (p[edges[has_v, 0]]), which is in range because a mesh has at
\* least as many edges as vertices
UpdatedCosts(F, ed, v, Q, vl) ==
    [i \in DOMAIN F |->
        IF ed[i][1] = v \/ ed[i][2] = v
        THEN Fin(WeightedCost(
                 ShapeCost(p[ed[i][1] + 1], p[ed[i][2] + 1],
                           Q[ed[i][1]], Q[ed[i][2]]),
                 SampleCost(edge_lengths[i], vl[ed[i][1]])))
        ELSE F[i]]

\* lines 229-273: an iteration whose candidate edges border no face
KeepEdge ==
    /\ pc = "loop"
    /\ face_edges # <<>>
    /\ \E F \in {MaskedCosts(F_T, keep, is_collapsed)} :
       \E ix \in {ArgminFirst(F)} :
       \E clps_edges \in {ClpsEdges(edges, edges[ix][1], edges[ix][2])} :
          /\ \A f \in DOMAIN face_edges : ~HasUV(face_edges[f], clps_edges)
          /\ F_T' = F
          /\ collapse_ix' = ix
          /\ face_count' = Len(face_edges)
          /\ keep' = keep \cup clps_edges
    /\ UNCHANGED <<entry, pc, exc, mesh, edges, edge_lengths, p, face_edges,
                   is_collapsed, Q_array, verts_lengths, graphVars, swcVars>>

\* lines 275-332: the rest of an iteration that removes faces: relabel the
\* opposite edges, merge u into v, update the costs around v
CollapseInto(F, u, v, clps_edges, clps_faces, rest, flat) ==
    IF Len(flat) # 2 * Len(clps_faces)
    THEN \* reshape(n, 2) raises ValueError
         /\ pc' = "raised"
         /\ exc' = "reshape"
         /\ face_edges' = rest
         /\ is_collapsed' = is_collapsed \cup clps_edges
         /\ F_T' = F
         /\ UNCHANGED <<edges, Q_array, verts_lengths>>
    ELSE \E done \in {Relabel(flat, 1, rest, is_collapsed \cup clps_edges)} :
         \E ed \in {MergeVertex(edges, u, v)} :
         \E Q \in {[Q_array EXCEPT ![v] = MatAdd(Q_array[v], Q_array[u])]} :
         \E vl \in {[verts_lengths EXCEPT
                        ![v] = verts_lengths[v] + verts_lengths[u]]} :
            /\ pc' = "loop"
            /\ exc' = exc
            /\ face_edges' = done.face_edges
            /\ is_collapsed' = done.is_collapsed
            /\ edges' = ed
            /\ Q_array' = Q
            /\ verts_lengths' = vl
            /\ F_T' = UpdatedCosts(F, ed, v, Q, vl)

\* lines 229-332: an iteration that removes faces and merges u into v
CollapseEdge ==
    /\ pc = "loop"
    /\ face_edges # <<>>
    /\ \E F \in {MaskedCosts(F_T, keep, is_collapsed)} :
       \E ix \in {ArgminFirst(F)} :
       \E clps_edges \in {ClpsEdges(edges, edges[ix][1], edges[ix][2])} :
       \E clps_faces \in {SelectSeq(face_edges, LAMBDA r : HasUV(r, clps_edges))} :
       \E rest \in {SelectSeq(face_edges, LAMBDA r : ~HasUV(r, clps_edges))} :
          /\ clps_faces # <<>>
          /\ collapse_ix' = ix
          /\ face_count' = Len(face_edges)
          /\ CollapseInto(F, edges[ix][1], edges[ix][2], clps_edges,
                          clps_faces, rest, Flatten(clps_faces, clps_edges))
    /\ UNCHANGED <<entry, mesh, edge_lengths, p, keep, graphVars, swcVars>>

\* lines 334-340: the loop is over; the kept edges go to edges_to_graph
SelectRows(ed, S) ==
    SelectSeq([i \in DOMAIN ed |-> <<i, ed[i]>>], LAMBDA r : r[1] \in S)

LoopExit ==
    /\ pc = "loop"
    /\ face_edges = <<>>
    /\ \E corrected \in {SelectRows(edges, keep)} :
          in_edges' = [i \in DOMAIN corrected |-> corrected[i][2]]
    /\ fix_tree' = TRUE
    /\ weight' = FALSE
    /\ drop_disconnected' = TRUE
    /\ pc' = "edges_to_graph"
    /\ UNCHANGED <<entry, exc, mesh, loopVars, G, swcVars>>

\* ---------------------------------------------------------- edges_to_graph
\* line 523
DropSelfLoops(es) == SelectSeq(es, LAMBDA e : e[1] # e[2])

\* line 526: a row is compared, entry by entry, with its own mirror image
DropMirrored(es) == SelectSeq(es, LAMBDA e : ~(e[1] = e[2] \/ e[2] = e[1]))

Link(a, b) == IF a < b THEN <<a, b>> ELSE <<b, a>>

\* lines 528-533: nx.Graph of the rows
Endpoints(L) == {e[1] : e \in L} \cup {e[2] : e \in L}

Neighbors(L, n) == {e[2] : e \in {d \in L : d[1] = n}}
                   \cup {e[1] : e \in {d \in L : d[2] = n}}

Degree(L, n) == Cardinality(Neighbors(L, n))

\* the nodes reached from S through the nodes of `allowed`
RECURSIVE Reachable(_, _, _)
Reachable(L, allowed, S) ==
    IF \E n \in S : \E m \in Neighbors(L, n) : m \in allowed /\ m \notin S
    THEN Reachable(L, allowed,
                   S \cup {m \in allowed : \E n \in S : m \in Neighbors(L, n)})
    ELSE S

\* lines 540-550: nx.find_cycle returns some cycle as edges (tail, head) in
\* the direction of its traversal; the edge removed is one whose tail has
\* the least degree on the cycle.  So an edge can be removed when it lies
\* on a cycle all of whose nodes have at least the degree of one of its ends
OnCycleFrom(L, e, t, h) ==
    h \in Reachable(L \ {e}, {n \in Endpoints(L) : Degree(L, n) >= Degree(L, t)},
                    {t})

Removable(L) ==
    {e \in L : OnCycleFrom(L, e, e[1], e[2]) \/ OnCycleFrom(L, e, e[2], e[1])}

\* lines 537-550: remove cycle edges until nx.find_cycle finds none
RECURSIVE RemoveCycles(_)
RemoveCycles(L) ==
    IF Removable(L) = {} THEN {L}
    ELSE UNION {RemoveCycles(L \ {e}) : e \in Removable(L)}

\* nx.connected_components
Components(N, L) == {Reachable(L, N, {n}) : n \in N}

SetMin(S) == CHOOSE n \in S : \A m \in S : n <= m

\* nx.predecessor(sg, r) read as (k, v[0]): breadth first from r, each node
\* paired with the first node of the previous level it hangs on
RECURSIVE Predecessor(_, _, _)
Predecessor(L, frontier, seen) ==
    IF \E n \in frontier : Neighbors(L, n) \ seen # {}
    THEN {<<k, CHOOSE v \in frontier : k \in Neighbors(L, v)>> :
             k \in UNION {Neighbors(L, n) \ seen : n \in frontier}}
         \cup Predecessor(L, UNION {Neighbors(L, n) \ seen : n \in frontier},
                          seen \cup UNION {Neighbors(L, n) : n \in frontier})
    ELSE {}

\* OrientComponents without the traversal: the links keep the direction
\* they were stored with
OrientAsStored(N, L) == L

\* lines 553-568: per component, the root is the first node of the graph,
\* whose nodes were added in ascending order
OrientComponents(N, L) ==
    UNION {Predecessor(L, {SetMin(c)}, {SetMin(c)}) : c \in Components(N, L)}

\* lines 535-568
FixTree(N, L) ==
    {[directed |-> TRUE, nodes |-> Endpoints(OrientComponents(N, F)),
      edges |-> OrientComponents(N, F), weights |-> <<>>] :
        F \in RemoveCycles(L)}

\* degree of a node of the returned graph
GraphDegree(g, n) == Cardinality({e \in g.edges : e[1] = n \/ e[2] = n})

\* lines 570-573: np.array(G.degree) of a graph without nodes has one axis,
\* and deg[:, 1] raises IndexError
DropDisconnected(out) ==
    IF out.exc # "none" THEN out
    ELSE IF out.G.nodes = {} THEN [exc |-> "IndexError", G |-> out.G]
    ELSE [exc |-> "none",
          G |-> [out.G EXCEPT
                    !.nodes = {n \in out.G.nodes : GraphDegree(out.G, n) # 0}]]

\* lines 575-580: np.array(G.edges) of a graph without edges has one axis
AddWeights(out, vertices) ==
    IF out.exc # "none" THEN out
    ELSE IF out.G.edges = {} THEN [exc |-> "IndexError", G |-> out.G]
    ELSE [exc |-> "none",
          G |-> [out.G EXCEPT
                    !.weights = [e \in out.G.edges |->
                                    Abs(vertices[e[1]] - vertices[e[2]])]]]

\* lines 519-582
EdgesToGraphFrom(N, L, vertices, fix, drop, wt) ==
    {LET built == [exc |-> "none", G |-> g]
         dropped == IF drop THEN DropDisconnected(built) ELSE built
     IN IF wt THEN AddWeights(dropped, vertices) ELSE dropped :
        g \in IF fix THEN FixTree(N, L)
              ELSE {[directed |-> FALSE, nodes |-> N, edges |-> L,
                     weights |-> <<>>]}}

EdgesToGraph(es, vertices, fix, drop, wt) ==
    EdgesToGraphFrom(
        UNION {{e[1], e[2]} : e \in Range(DropMirrored(DropSelfLoops(es)))},
        {Link(e[1], e[2]) : e \in Range(DropMirrored(DropSelfLoops(es)))},
        vertices, fix, drop, wt)

\* edges_to_graph as one call; skeletonize (output='swc') passes the graph
\* on to make_swc(G, mesh), whose rows are np.array(G.edges)
CallEdgesToGraph ==
    /\ pc = "edges_to_graph"
    /\ \E out \in EdgesToGraph(in_edges, mesh.vertices, fix_tree,
                               drop_disconnected, weight) :
          /\ G' = out.G
          /\ exc' = out.exc
          /\ IF out.exc # "none"
             THEN pc' = "raised" /\ UNCHANGED <<x, reindex, validate>>
             ELSE IF entry = "skeletonize"
             THEN /\ pc' = "make_swc"
                  /\ x' = SortedRows(out.G.edges)
                  /\ reindex' = FALSE
                  /\ validate' = TRUE
             ELSE pc' = "done" /\ UNCHANGED <<x, reindex, validate>>
    /\ UNCHANGED <<entry, mesh, loopVars, in_edges, fix_tree,
                   drop_disconnected, weight, swc>>

\* every set of at most MaxEdges rows (a, b), a <= b, over 0..MaxVertex
GraphInputs ==
    {SortedRows(S) :
        S \in SubsetsUpTo({e \in (0..MaxVertex) \X (0..MaxVertex) : e[1] <= e[2]},
                          MaxEdges)}

NoMesh == [faces |-> {}, edges_unique |-> <<>>, vertices |-> Layout]

IdleLoop ==
    /\ edges = <<>>
    /\ edge_lengths = <<>>
    /\ p = <<>>
    /\ face_edges = <<>>
    /\ is_collapsed = {}
    /\ keep = {}
    /\ F_T = <<>>
    /\ Q_array = <<>>
    /\ verts_lengths = <<>>
    /\ face_count = 0
    /\ collapse_ix = 0

InitEdgesToGraph ==
    /\ entry = "edges_to_graph"
    /\ pc = "edges_to_graph"
    /\ exc = "none"
    /\ mesh = NoMesh
    /\ IdleLoop
    /\ in_edges \in GraphInputs
    /\ fix_tree \in BOOLEAN
    /\ drop_disconnected \in BOOLEAN
    /\ weight \in BOOLEAN
    /\ G = NoGraph
    /\ x = <<>>
    /\ reindex = FALSE
    /\ validate = FALSE
    /\ swc = <<>>

\* ---------------------------------------------------------------- make_swc
\* the value pandas' map gives an id that is no key of the mapping
NaN == -2

\* pandas unique(): the values in the order of their first appearance
UniqueInOrder(s) ==
    LET firsts == SelectSeq([i \in DOMAIN s |-> i],
                            LAMBDA i : \A j \in 1..(i - 1) : s[j] # s[i])
    IN [k \in DOMAIN firsts |-> s[firsts[k]]]

\* lines 481-482: the parents that are no node
Missing(rows) ==
    SelectSeq(UniqueInOrder([i \in DOMAIN rows |-> rows[i][2]]),
              LAMBDA m : \A i \in DOMAIN rows : rows[i][1] # m)

\* line 483: Python's any() over the ids, true when one of them is not 0
AnyMissing(miss) == \E i \in DOMAIN miss : miss[i] # 0

\* lines 480-485: a root row for each missing parent
WithRoots(rows, miss) ==
    IF AnyMissing(miss)
    THEN rows \o [i \in DOMAIN miss |-> <<miss[i], -1>>]
    ELSE rows

\* line 497: the orders sort_values('parent_id') can leave the rows in (the
\* default sort is not stable, so rows of equal parent_id come in any order)
RECURSIVE SortedByParent(_, _)
SortedByParent(rows, S) ==
    IF S = {} THEN {<<>>}
    ELSE UNION {{<<rows[i]>> \o rest : rest \in SortedByParent(rows, S \ {i})} :
                   i \in {j \in S : \A k \in S : rows[j][2] <= rows[k][2]}}

\* lines 503-506: dict(zip(node_id, index)), a later row overwriting an
\* earlier one, then new_ids[-1] = -1
NewId(rows, n) ==
    IF n = -1 THEN -1
    ELSE IF \E i \in DOMAIN rows : rows[i][1] = n
    THEN (CHOOSE i \in DOMAIN rows :
              /\ rows[i][1] = n
              /\ \A j \in DOMAIN rows : rows[j][1] = n => j <= i) - 1
    ELSE NaN

\* lines 495-509
Reindex(rows) ==
    {[i \in DOMAIN sorted |->
         <<NewId(sorted, sorted[i][1]), NewId(sorted, sorted[i][2]),
           sorted[i][1]>>] :
        sorted \in SortedByParent(rows, DOMAIN rows)}

\* HasDuplicateNodes looking at the parent_id column
HasDuplicateParents(rows) ==
    \E i, j \in DOMAIN rows : i # j /\ rows[i][2] = rows[j][2]

\* line 513
HasDuplicateNodes(rows) ==
    \E i, j \in DOMAIN rows : i # j /\ rows[i][1] = rows[j][1]

\* lines 487-493: the coordinate of a row's vertex (numpy reads index -1 as
\* the last vertex) and the placeholder radius
TableRow(r, vertex, vertices) ==
    [node_id |-> r[1], parent_id |-> r[2],
     x |-> IF vertex = -1 THEN vertices[Cardinality(DOMAIN vertices) - 1]
           ELSE vertices[vertex],
     radius |-> 1]

\* lines 511-516
Validated(rows, vertices, val) ==
    IF val /\ HasDuplicateNodes(rows)
    THEN [exc |-> "ValueError", swc |-> <<>>]
    ELSE [exc |-> "none",
          swc |-> [i \in DOMAIN rows |-> TableRow(rows[i], rows[i][3], vertices)]]

\* lines 474-516; a row is (node_id, parent_id, vertex)
MakeSwcFrom(rows, vertices, reidx, val) ==
    {Validated(t, vertices, val) :
        t \in IF reidx THEN Reindex(rows)
              ELSE {[i \in DOMAIN rows |-> <<rows[i][1], rows[i][2], rows[i][1]>>]}}

MakeSwc(xs, vertices, reidx, val) ==
    MakeSwcFrom(WithRoots(SortedRows(Range(xs)), Missing(SortedRows(Range(xs)))),
                vertices, reidx, val)

CallMakeSwc ==
    /\ pc = "make_swc"
    /\ \E out \in MakeSwc(x, mesh.vertices, reindex, validate) :
          /\ swc' = out.swc
          /\ exc' = out.exc
          /\ pc' = IF out.exc = "none" THEN "done" ELSE "raised"
    /\ UNCHANGED <<entry, mesh, loopVars, graphVars, x, reindex, validate>>

\* every array of at most MaxRows rows (node_id, parent_id)
RECURSIVE SeqsUpTo(_, _)
SeqsUpTo(S, n) ==
    IF n = 0 THEN {<<>>}
    ELSE SeqsUpTo(S, n - 1)
         \cup {Append(t, e) : t \in {u \in SeqsUpTo(S, n - 1) : Len(u) = n - 1},
                              e \in S}

SwcInputs == SeqsUpTo((0..MaxNode) \X (-1..MaxNode), MaxRows)

InitMakeSwc ==
    /\ entry = "make_swc"
    /\ pc = "make_swc"
    /\ exc = "none"
    /\ mesh = NoMesh
    /\ IdleLoop
    /\ in_edges = <<>>
    /\ fix_tree = FALSE
    /\ drop_disconnected = FALSE
    /\ weight = FALSE
    /\ G = NoGraph
    /\ x \in SwcInputs
    /\ reindex \in BOOLEAN
    /\ validate \in BOOLEAN
    /\ swc = <<>>

\* ------------------------------------------------------- specifications
Init == InitSkeletonize

Next ==
    KeepEdge \/ CollapseEdge \/ LoopExit \/ CallEdgesToGraph \/ CallMakeSwc

\* skeletonize(mesh)
Spec == Init /\ [][Next]_vars

\* skeletonize(mesh), the interpreter running it to its end
FairSpec == Spec /\ WF_vars(Next)

\* edges_to_graph(edges, vertices, fix_tree, drop_disconnected, weight)
SpecGraph == InitEdgesToGraph /\ [][CallEdgesToGraph]_vars

\* make_swc(x, mesh, reindex, validate)
SpecSwc == InitMakeSwc /\ [][CallMakeSwc]_vars

C2_SelectsMinimalCost ==
    [][(pc = "loop" /\ face_edges # <<>>)
          => \A j \in DOMAIN F_T \ (keep \cup is_collapsed) :
                ~CostLess(F_T[j], F_T[collapse_ix'])]_vars

\* C7: skeletonize of the tetrahedron, whatever the order of its six unique
\* edges, returns a table of at most 4 rows, exactly one with parent_id -1
C7_TetrahedronTable ==
    (mesh.faces = Tetrahedron /\ pc \in {"raised", "done"})
        => /\ pc = "done"
           /\ Len(swc) <= 4
           /\ Cardinality({i \in DOMAIN swc : swc[i].parent_id = -1}) = 1

\* C8: when the collapse loop is over, every edge is flagged kept or
\* collapsed
C8_AllEdgesRetired ==
    (entry = "skeletonize" /\ pc # "loop" /\ face_edges = <<>>)
        => DOMAIN edges \subseteq (keep \cup is_collapsed)

\* C9: a flag once set stays set, and no edge is flagged both kept and
\* collapsed
C9_FlagsTerminalExclusive ==
    [][/\ keep \subseteq keep'
       /\ is_collapsed \subseteq is_collapsed'
       /\ keep' \cap is_collapsed' = {}]_vars

\* C3: the graph edges_to_graph returns with fix_tree=True is acyclic, gives
\* every node at most one parent, and has exactly one root (a node without
\* parent) in every connected component
C3_FixTreeForest ==
    (entry = "edges_to_graph" /\ pc = "done" /\ fix_tree)
        => /\ \A a, b \in G.edges : a[1] = b[1] => a = b
           /\ \A S \in SUBSET G.nodes \ {{}} :
                 \E n \in S : \A e \in G.edges : e[1] = n => e[2] \notin S
           /\ \A c \in Components(G.nodes, {Link(e[1], e[2]) : e \in G.edges}) :
                 Cardinality({n \in c : \A e \in G.edges : e[1] # n}) = 1

\* a graph is returned for rows that held a cycle, an edge of which is gone
C3_Witness ==
    /\ entry = "edges_to_graph"
    /\ pc = "done"
    /\ fix_tree
    /\ G.edges # {}
    /\ Cardinality(G.edges)
          < Cardinality({e \in Range(in_edges) : e[1] # e[2]})

\* C4: in the table make_swc returns for child->parent rows, every
\* parent_id other than -1 is the node_id of some row, the missing parents
\* having been given rows of their own with parent_id -1
C4_ParentsAreNodes ==
    (/\ entry = "make_swc"
     /\ pc = "done"
     /\ \A i \in DOMAIN x : x[i][1] >= 0 /\ x[i][2] >= 0)
        => \A i \in DOMAIN swc :
              swc[i].parent_id # -1
                 => \E j \in DOMAIN swc : swc[j].node_id = swc[i].parent_id

\* C5: with reindex=True and a forest of unique node_ids, the new ids are
\* the row indices 0..N-1 and every row with a parent comes after the row
\* of its parent
C5_ReindexParentFirst ==
    (/\ entry = "make_swc"
     /\ pc = "done"
     /\ reindex
     /\ \A i \in DOMAIN x : x[i][1] >= 0 /\ x[i][2] >= 0
     /\ \A i, j \in DOMAIN x : x[i][1] = x[j][1] => x[i] = x[j]
     /\ \A S \in SUBSET {x[i][1] : i \in DOMAIN x} \ {{}} :
           \E i \in DOMAIN x : x[i][1] \in S /\ x[i][2] \notin S)
        => /\ \A i \in DOMAIN swc : swc[i].node_id = i - 1
           /\ \A i, j \in DOMAIN swc :
                 (swc[i].parent_id # -1 /\ swc[j].node_id = swc[i].parent_id)
                    => j < i

\* C6: make_swc raises its validation error exactly when validate=True and
\* some node_id comes with two different parents; otherwise it returns the
\* table
C6_ValidationError ==
    (entry = "make_swc" /\ pc # "make_swc")
        => /\ (pc = "raised" /\ exc = "ValueError")
                 <=> (validate /\ \E i, j \in DOMAIN x :
                                     x[i][1] = x[j][1] /\ x[i][2] # x[j][2])
           /\ pc \in {"raised", "done"}
           /\ pc = "done" => exc = "none"

\* the error is raised for a node with two parents
C6_Witness ==
    /\ entry = "make_swc"
    /\ pc = "raised"
    /\ exc = "ValueError"
    /\ validate
    /\ \E i, j \in DOMAIN x : x[i][1] = x[j][1] /\ x[i][2] # x[j][2]

\* C11: an edge is flagged kept only in an iteration in which no live
\* face-edge triple contains it or another edge joining the same two
\* vertices, and afterwards no live triple references an edge flagged kept
C11_KeptEdgesBorderNoFace ==
    /\ [][\A e \in keep' \ keep :
             \A j \in DOMAIN edges :
                ({edges[j][1], edges[j][2]} = {edges[e][1], edges[e][2]})
                   => \A f \in DOMAIN face_edges :
                         \A k \in 1..3 : face_edges[f][k] # j]_vars
    /\ [](\A f \in DOMAIN face_edges :
             \A k \in 1..3 : face_edges[f][k] \notin keep)

\* an edge has been flagged kept while faces are still live
C11_Witness ==
    /\ pc = "loop"
    /\ keep # {}
    /\ face_edges # <<>>

\* C12: after an iteration that removes faces, no live face-edge triple
\* references an edge flagged collapsed
C12_NoFaceOnCollapsedEdge ==
    [][Len(face_edges') < Len(face_edges)
          => \A f \in DOMAIN face_edges' :
                \A k \in 1..3 : face_edges'[f][k] \notin is_collapsed']_vars

\* C13: an iteration never merges the ends u, v of an edge when some vertex
\* k is joined by an edge to both of them and (u, v, k) is no live face
C13_NoMergeAcrossOpenTriangle ==
    [][Len(face_edges') < Len(face_edges)
          => LET u == edges[collapse_ix'][1]
                 v == edges[collapse_ix'][2]
                 Adjacent(a, b) ==
                     \E i \in DOMAIN edges \ is_collapsed :
                        {edges[i][1], edges[i][2]} = {a, b}
                 Corners(f) ==
                     UNION {{edges[face_edges[f][c]][1],
                             edges[face_edges[f][c]][2]} : c \in 1..3}
             IN \A k \in DOMAIN mesh.vertices \ {u, v} :
                   (Adjacent(u, k) /\ Adjacent(v, k))
                      => \E f \in DOMAIN face_edges : Corners(f) = {u, v, k}]_vars

\* C14: before the first iteration, the incident length sum of a vertex is
\* the sum of the lengths of the edges that store it in their first slot
C14_FirstSlotLengthSum ==
    (entry = "skeletonize" /\ pc = "loop" /\ collapse_ix = 0)
        => \A v \in DOMAIN verts_lengths :
              verts_lengths[v]
                 = SumOver({i \in DOMAIN edges : edges[i][1] = v}, edge_lengths)
====
